---- MODULE Spec2Model ----
(***************************************************************************)
(* Model of scripts/pareto_optimization.py: one call of                    *)
(* optimize_pareto_front(df, obj1_col, obj2_col, min_unique_points,        *)
(* population_size, generations).  The NSGA-II engine (platypus) is an     *)
(* external library: its run either raises or leaves a result set of       *)
(* evaluated solutions whose decision value lies inside the Integer        *)
(* bounds the problem declares.                                            *)
(***************************************************************************)
EXTENDS Integers, Sequences, FiniteSets, TLC

VARIABLES
    df,                  \* the caller's input table
    obj1_col,            \* requested name of the first objective column
    obj2_col,            \* requested name of the second objective column
    min_unique_points,   \* requested target number of unique frontier rows
    pc,                  \* position of the call
    df_clean,            \* df after dropna, once computed
    result,              \* algorithm.result, once the search has run
    searches,            \* number of NSGAII constructions/runs in this call
    pareto_front_df,     \* first returned table (objective-only)
    pareto_front_unique, \* second returned table (full rows)
    warned,              \* the under-target warning was printed
    error,               \* message printed by the except branch, or "none"
    objects              \* the object each table name is bound to, named by
                         \* the call that created it

vars == <<df, obj1_col, obj2_col, min_unique_points, pc, df_clean, result,
          searches, pareto_front_df, pareto_front_unique, warned, error, objects>>

----------------------------------------------------------------------------
(* Bounds of the model *)

MaxRows == 2
MaxVal == 2
MaxPop == 2

----------------------------------------------------------------------------
(* Floating point cells: finite values 1..MaxVal, +inf above every finite  *)
(* value, and NaN, which is unordered.                                     *)

Inf == MaxVal + 1
NaN == MaxVal + 2
IsNaN(v) == v = NaN
FiniteVals == 1..MaxVal
FloatVals == FiniteVals \cup {Inf, NaN}
ExtraVals == {1, MaxVal}

\* IEEE comparison a < b: false as soon as one side is NaN
FloatLt(a, b) == ~IsNaN(a) /\ ~IsNaN(b) /\ a < b
FloatLe(a, b) == ~IsNaN(a) /\ ~IsNaN(b) /\ a <= b

Range(s) == {s[i] : i \in DOMAIN s}
SeqsUpTo(S, n) == UNION {[1..k -> S] : k \in 0..n}

----------------------------------------------------------------------------
(* Tables.  A table has an ordered list of column names and a sequence of  *)
(* rows; a row carries its index label and one value per column.  The      *)
(* input table also records which of its columns have a numeric dtype.     *)

AllCols == <<"fini_Mg", "fini_Ca", "pH">>
NoTable == [columns |-> <<>>, rows |-> <<>>]

\* rows with two finite objectives, and rows with a missing or infinite one
FiniteRows ==
    [fini_Mg : FiniteVals, fini_Ca : FiniteVals, pH : {1}]
        \cup [fini_Mg : {1}, fini_Ca : {1}, pH : ExtraVals]
SpecialRows ==
    {[fini_Mg |-> p[1], fini_Ca |-> p[2], pH |-> 1] :
        p \in ({NaN, Inf} \X {1}) \cup ({1} \X {NaN, Inf}) \cup {<<NaN, NaN>>}}
RowVals == FiniteRows \cup SpecialRows

\* a freshly built frame: RangeIndex labels 0..n-1
MkTable(vs, num) ==
    [columns |-> AllCols,
     numeric |-> num,
     rows    |-> [i \in 1..Len(vs) |-> [label |-> i - 1, vals |-> vs[i]]]]

NumericTables == {MkTable(vs, Range(AllCols)) : vs \in SeqsUpTo(RowVals, MaxRows)}
ObjectTables ==
    {MkTable(<<[fini_Mg |-> 1, fini_Ca |-> 1, pH |-> 1]>>, Range(AllCols) \ {c}) :
        c \in {"fini_Mg", "fini_Ca"}}
ColumnlessTable == [columns |-> <<>>, numeric |-> {}, rows |-> <<>>]
Tables == NumericTables \cup ObjectTables \cup {ColumnlessTable}

ObjPairs == {<<"fini_Mg", "fini_Ca">>, <<"fini_Mg", "T_cold">>}
TargetChoices == {1, MaxRows}

----------------------------------------------------------------------------
(* pandas operations used by the function *)

\* variant: a frame counts as empty only when it has no columns
empty_columns_only(t) == Len(t.columns) = 0

\* DataFrame.empty: any axis of length 0
empty(t) == Len(t.rows) = 0 \/ Len(t.columns) = 0

missing_cols(t, o1, o2) == SelectSeq(<<o1, o2>>, LAMBDA c : c \notin Range(t.columns))

is_numeric_dtype(t, c) == c \in t.numeric

\* variant: missing objectives are filled with the smallest value instead of
\* their rows being dropped
fillna(t, o1, o2) ==
    [t EXCEPT !.rows =
        [i \in 1..Len(t.rows) |->
            [t.rows[i] EXCEPT !.vals =
                [c \in DOMAIN t.rows[i].vals |->
                    IF c \in {o1, o2} /\ IsNaN(t.rows[i].vals[c])
                    THEN 1 ELSE t.rows[i].vals[c]]]]]

\* variant: dropna followed by reset_index(drop=True), the kept rows are
\* relabelled 0..n-1
dropna_reset_index(t, o1, o2) ==
    LET kept == SelectSeq(t.rows, LAMBDA r : ~IsNaN(r.vals[o1]) /\ ~IsNaN(r.vals[o2]))
    IN  [t EXCEPT !.rows = [i \in 1..Len(kept) |-> [kept[i] EXCEPT !.label = i - 1]]]

\* variant: dropna(..., inplace=True) also removes the rows from the receiver
dropna_inplace_receiver(t, o1, o2) ==
    [t EXCEPT !.rows = SelectSeq(t.rows,
                          LAMBDA r : ~IsNaN(r.vals[o1]) /\ ~IsNaN(r.vals[o2]))]

\* the receiver of df.dropna(subset=...): without inplace it is left as it was
dropna_receiver(t, o1, o2) == t

\* variant: dropna(subset=[obj1_col]), the second objective is not looked at
dropna_first_only(t, o1, o2) ==
    [t EXCEPT !.rows = SelectSeq(t.rows, LAMBDA r : ~IsNaN(r.vals[o1]))]

\* df.dropna(subset=[obj1_col, obj2_col]).copy(): labels are kept
dropna(t, o1, o2) ==
    [t EXCEPT !.rows = SelectSeq(t.rows,
                          LAMBDA r : ~IsNaN(r.vals[o1]) /\ ~IsNaN(r.vals[o2]))]

\* variant: data.loc[idx:idx+1], a slice by index label, both ends included
loc_slice(data, idx) ==
    SelectSeq(data.rows, LAMBDA r : idx <= r.label /\ r.label <= idx + 1)

\* where a slice bound b falls in a sequence of n rows: a negative bound
\* counts from the end, and the result is clipped to 0..n
SliceBound(b, n) ==
    IF b < 0 THEN (IF n + b < 0 THEN 0 ELSE n + b) ELSE (IF b > n THEN n ELSE b)

\* data.iloc[idx:idx+1]: a positional slice, empty when idx is out of range
iloc_slice(data, idx) ==
    SubSeq(data.rows, SliceBound(idx, Len(data.rows)) + 1,
                      SliceBound(idx + 1, Len(data.rows)))

\* DataFrame.drop_duplicates(): keeps the first of the rows whose values are
\* equal in every column; the index label takes no part in the comparison
RowsOf(es) == [i \in 1..Len(es) |-> es[i].row]

\* variant: duplicates are recognised by index label only
drop_duplicate_labels(rows) ==
    RowsOf(SelectSeq([i \in 1..Len(rows) |->
                         [row |-> rows[i],
                          dup |-> \E j \in 1..(i - 1) : rows[j].label = rows[i].label]],
                     LAMBDA e : ~e.dup))

drop_duplicates(rows) ==
    RowsOf(SelectSeq([i \in 1..Len(rows) |->
                         [row |-> rows[i],
                          dup |-> \E j \in 1..(i - 1) : rows[j].vals = rows[i].vals]],
                     LAMBDA e : ~e.dup))

KeyLe(a, b, o1, o2) ==
    \/ FloatLt(a.vals[o1], b.vals[o1])
    \/ a.vals[o1] = b.vals[o1] /\ FloatLe(a.vals[o2], b.vals[o2])

RECURSIVE InsertSorted(_, _, _, _)
InsertSorted(r, sorted, o1, o2) ==
    IF sorted = <<>> THEN <<r>>
    ELSE IF KeyLe(sorted[1], r, o1, o2)
         THEN <<sorted[1]>> \o InsertSorted(r, Tail(sorted), o1, o2)
         ELSE <<r>> \o sorted

RECURSIVE InsertByFirstKey(_, _, _)
InsertByFirstKey(r, sorted, o1) ==
    IF sorted = <<>> THEN <<r>>
    ELSE IF FloatLe(sorted[1].vals[o1], r.vals[o1])
         THEN <<sorted[1]>> \o InsertByFirstKey(r, Tail(sorted), o1)
         ELSE <<r>> \o sorted

\* variant: sort_values(obj1_col) alone
RECURSIVE sort_by_first_key(_, _, _)
sort_by_first_key(rows, o1, o2) ==
    IF rows = <<>> THEN <<>>
    ELSE InsertByFirstKey(rows[Len(rows)],
                          sort_by_first_key(SubSeq(rows, 1, Len(rows) - 1), o1, o2), o1)

\* DataFrame.sort_values([obj1_col, obj2_col]): ascending, lexicographic,
\* rows with equal keys keep their relative order
RECURSIVE sort_values(_, _, _)
sort_values(rows, o1, o2) ==
    IF rows = <<>> THEN <<>>
    ELSE InsertSorted(rows[Len(rows)],
                      sort_values(SubSeq(rows, 1, Len(rows) - 1), o1, o2), o1, o2)

----------------------------------------------------------------------------
(* The optimisation problem and the result set of the search *)

\* ParetoProblem.evaluate: the objectives are read from the row at position idx
evaluate(data, idx, o1, o2) ==
    <<data.rows[idx + 1].vals[o1], data.rows[idx + 1].vals[o2]>>

\* Integer(0, len(data) - 1): the domain of the one decision variable
IndexBounds(data) == 0..(Len(data.rows) - 1)

Solutions(data, o1, o2) ==
    {[variables |-> i, objectives |-> evaluate(data, i, o1, o2)] : i \in IndexBounds(data)}

\* what algorithm.result can be after algorithm.run: a population of
\* evaluated solutions
ResultSets(data, o1, o2) == SeqsUpTo(Solutions(data, o1, o2), MaxPop) \ {<<>>}

\* variant: the loop without the test on the objectives
RECURSIVE ExtractAll(_, _)
ExtractAll(data, res) ==
    IF res = <<>> THEN <<>>
    ELSE ExtractAll(data, SubSeq(res, 1, Len(res) - 1))
            \o iloc_slice(data, res[Len(res)].variables)

\* the loop over algorithm.result: solutions with a finite pair of
\* objectives contribute the row their decision value selects
RECURSIVE ExtractFront(_, _)
ExtractFront(data, res) ==
    IF res = <<>> THEN <<>>
    ELSE LET solution == res[Len(res)]
             before   == ExtractFront(data, SubSeq(res, 1, Len(res) - 1))
         IN  IF FloatLt(solution.objectives[1], Inf) /\ FloatLt(solution.objectives[2], Inf)
             THEN before \o iloc_slice(data, solution.variables)
             ELSE before

\* the rows of pareto_front_unique after drop_duplicates and sort_values
UniqueFront(data, res, o1, o2) ==
    sort_values(drop_duplicates(ExtractFront(data, res)), o1, o2)

\* variant: an under-target frontier is discarded
ensure_minimum_or_nothing(rows, m) ==
    [rows |-> IF Len(rows) < m THEN <<>> ELSE rows, warning |-> Len(rows) < m]

\* the under-target check: it prints a warning and changes nothing
ensure_minimum(rows, m) == [rows |-> rows, warning |-> Len(rows) < m]

\* variant: the index is reset but the projection on the two objectives is
\* forgotten
all_columns_reset(rows, o1, o2) ==
    [columns |-> AllCols,
     rows    |-> [i \in 1..Len(rows) |-> [label |-> i - 1, vals |-> rows[i].vals]]]

\* pareto_front_unique[[obj1_col, obj2_col]].copy().reset_index(drop=True)
objective_only(rows, o1, o2) ==
    [columns |-> <<o1, o2>>,
     rows    |-> [i \in 1..Len(rows) |->
                     [label |-> i - 1,
                      vals  |-> [c \in {o1, o2} |-> rows[i].vals[c]]]]]

\* variant: the full-row table always takes the input's columns
ErrorReturnInputColumns(t, o1, o2) ==
    <<[columns |-> <<o1, o2>>, rows |-> <<>>],
      [columns |-> t.columns, rows |-> <<>>]>>

\* the tables the except branch returns
ErrorReturn(t, o1, o2) ==
    <<[columns |-> <<o1, o2>>, rows |-> <<>>],
      [columns |-> IF ~empty(t) THEN t.columns ELSE <<>>, rows |-> <<>>]>>

\* variant: the try block ends before the optimizer is built and run
HandlerCoversValidation(stage) == stage \in {"Validating", "Cleaning"}

\* the try block spans every stage of the call
HandlerCovers(stage) == stage \in {"Validating", "Cleaning", "Searching", "Reconstructing"}

----------------------------------------------------------------------------
(* The call *)

Init ==
    /\ df \in Tables
    /\ \E p \in ObjPairs : obj1_col = p[1] /\ obj2_col = p[2]
    /\ min_unique_points \in TargetChoices
    /\ pc = "Validating"
    /\ df_clean = NoTable
    /\ result = <<>>
    /\ searches = 0
    /\ pareto_front_df = NoTable
    /\ pareto_front_unique = NoTable
    /\ warned = FALSE
    /\ error = "none"
    /\ objects = [df |-> "caller's df", df_clean |-> "unbound",
                  pareto_front_df |-> "unbound", pareto_front_unique |-> "unbound"]

\* raise ...: caught by the except branch when the try block covers the
\* raising statement, otherwise it reaches the caller; t is the input table
\* as the except branch finds it and objs the objects bound so far
Caught(msg, t, objs) ==
    /\ error' = msg
    /\ IF HandlerCovers(pc)
       THEN /\ pc' = "Failed"
            /\ pareto_front_df' = ErrorReturn(t, obj1_col, obj2_col)[1]
            /\ pareto_front_unique' = ErrorReturn(t, obj1_col, obj2_col)[2]
            /\ objects' = [objs EXCEPT
                              !.pareto_front_df = "pd.DataFrame(columns=[obj1_col, obj2_col])",
                              !.pareto_front_unique = "pd.DataFrame(columns=...)"]
       ELSE /\ pc' = "Raised"
            /\ objects' = objs
            /\ UNCHANGED <<pareto_front_df, pareto_front_unique>>

Raise(msg) == Caught(msg, df, objects)

\* the three input checks
Validate ==
    /\ pc = "Validating"
    /\ IF empty(df)
       THEN Raise("Input dataframe is empty")
       ELSE IF missing_cols(df, obj1_col, obj2_col) # <<>>
       THEN Raise("Missing required columns")
       ELSE IF ~is_numeric_dtype(df, obj1_col) \/ ~is_numeric_dtype(df, obj2_col)
       THEN Raise("Objective columns must be numeric")
       ELSE /\ pc' = "Cleaning"
            /\ UNCHANGED <<pareto_front_df, pareto_front_unique, error, objects>>
    /\ UNCHANGED <<df, obj1_col, obj2_col, min_unique_points, df_clean, result,
                   searches, warned>>

\* dropna and the check that rows are left
Clean ==
    /\ pc = "Cleaning"
    /\ df_clean' = dropna(df, obj1_col, obj2_col)
    /\ df' = dropna_receiver(df, obj1_col, obj2_col)
    /\ IF empty(df_clean')
       THEN Caught("No valid data after removing NaN values", df',
                   [objects EXCEPT !.df_clean = "df.dropna(...).copy()"])
       ELSE /\ pc' = "Searching"
            /\ objects' = [objects EXCEPT !.df_clean = "df.dropna(...).copy()"]
            /\ UNCHANGED <<pareto_front_df, pareto_front_unique, error>>
    /\ UNCHANGED <<obj1_col, obj2_col, min_unique_points, result, searches, warned>>

\* ParetoProblem(...), NSGAII(...), algorithm.run(generations) complete
SearchReturns ==
    /\ pc = "Searching"
    /\ searches' = searches + 1
    /\ result' \in ResultSets(df_clean, obj1_col, obj2_col)
    /\ pc' = "Reconstructing"
    /\ UNCHANGED <<df, obj1_col, obj2_col, min_unique_points, df_clean,
                   pareto_front_df, pareto_front_unique, warned, error, objects>>

\* the optimizer raises
SearchRaises ==
    /\ pc = "Searching"
    /\ searches' = searches + 1
    /\ Raise("search")
    /\ UNCHANGED <<df, obj1_col, obj2_col, min_unique_points, df_clean, result, warned>>

\* frontier extraction, duplicate removal, sort, under-target warning and the
\* two returned tables
Reconstruct ==
    /\ pc = "Reconstructing"
    /\ LET unique  == UniqueFront(df_clean, result, obj1_col, obj2_col)
           checked == ensure_minimum(unique, min_unique_points)
       IN  /\ warned' = checked.warning
           /\ pareto_front_df' = objective_only(checked.rows, obj1_col, obj2_col)
           /\ pareto_front_unique' = [columns |-> df_clean.columns, rows |-> checked.rows]
    /\ objects' = [objects EXCEPT
                      !.pareto_front_df = "copy().reset_index(drop=True)",
                      !.pareto_front_unique = "sort_values(...)"]
    /\ pc' = "Done"
    /\ UNCHANGED <<df, obj1_col, obj2_col, min_unique_points, df_clean, result,
                   searches, error>>

\* a statement of the reconstruction raises, e.g. int(solution.variables[0])
\* on a decision value the library does not hand back as a plain number
ReconstructRaises ==
    /\ pc = "Reconstructing"
    /\ Raise("reconstruction")
    /\ UNCHANGED <<df, obj1_col, obj2_col, min_unique_points, df_clean, result,
                   searches, warned>>

Next ==
    \/ Validate
    \/ Clean
    \/ SearchReturns
    \/ SearchRaises
    \/ Reconstruct
    \/ ReconstructRaises

Spec == Init /\ [][Next]_vars

----------------------------------------------------------------------------
(* The call with a result set that may hold degenerate solutions: tables   *)
(* may hold -inf objectives, and the result set may hold solutions whose   *)
(* decision value is past the last row, with objectives that were never    *)
(* read from the table.                                                    *)

NegInf == -Inf

DegenerateRows ==
    {[fini_Mg |-> p[1], fini_Ca |-> p[2], pH |-> 1] :
        p \in {<<1, 1>>, <<1, MaxVal>>, <<MaxVal, 1>>,
               <<Inf, 1>>, <<NegInf, 1>>, <<1, NaN>>}}

DegenerateTables ==
    {MkTable(vs, Range(AllCols)) : vs \in SeqsUpTo(DegenerateRows, MaxRows)}

StraySolutions(data) ==
    {[variables |-> i, objectives |-> o] :
        i \in {Len(data.rows), Len(data.rows) + 1}, o \in {<<1, 1>>, <<Inf, Inf>>}}

DegenerateResultSets(data, o1, o2) ==
    SeqsUpTo(Solutions(data, o1, o2) \cup StraySolutions(data), MaxPop) \ {<<>>}

InitDegenerate ==
    /\ df \in DegenerateTables
    /\ obj1_col = "fini_Mg"
    /\ obj2_col = "fini_Ca"
    /\ min_unique_points \in TargetChoices
    /\ pc = "Validating"
    /\ df_clean = NoTable
    /\ result = <<>>
    /\ searches = 0
    /\ pareto_front_df = NoTable
    /\ pareto_front_unique = NoTable
    /\ warned = FALSE
    /\ error = "none"
    /\ objects = [df |-> "caller's df", df_clean |-> "unbound",
                  pareto_front_df |-> "unbound", pareto_front_unique |-> "unbound"]

\* the search completes and leaves a result set with degenerate solutions
SearchReturnsDegenerate ==
    /\ pc = "Searching"
    /\ searches' = searches + 1
    /\ result' \in DegenerateResultSets(df_clean, obj1_col, obj2_col)
    /\ pc' = "Reconstructing"
    /\ UNCHANGED <<df, obj1_col, obj2_col, min_unique_points, df_clean,
                   pareto_front_df, pareto_front_unique, warned, error, objects>>

NextDegenerate ==
    \/ Validate
    \/ Clean
    \/ SearchReturnsDegenerate
    \/ SearchRaises
    \/ Reconstruct
    \/ ReconstructRaises

SpecDegenerate == InitDegenerate /\ [][NextDegenerate]_vars

Returned == pc \in {"Done", "Failed"}

----------------------------------------------------------------------------
(* Properties *)

FrontRows == pareto_front_unique.rows
ObjRows == pareto_front_df.rows

\* the input has both objective columns and r has a value in each
HasObjectives(r) ==
    /\ obj1_col \in Range(df.columns)
    /\ obj2_col \in Range(df.columns)
    /\ ~IsNaN(r.vals[obj1_col])
    /\ ~IsNaN(r.vals[obj2_col])

\* b dominates a: no worse in both objectives, better in one
Dominates(b, a) ==
    /\ b.vals[obj1_col] <= a.vals[obj1_col]
    /\ b.vals[obj2_col] <= a.vals[obj2_col]
    /\ (b.vals[obj1_col] < a.vals[obj1_col] \/ b.vals[obj2_col] < a.vals[obj2_col])

\* the candidates of the input: its rows without a missing objective
Candidates == {r \in Range(df.rows) : HasObjectives(r)}

\* C1: the returned frontier is mutually non-dominated: no returned row is
\* dominated by another returned row.
C1_NonDominated ==
    Returned =>
        \A i, j \in DOMAIN FrontRows :
            i # j => ~Dominates(FrontRows[j], FrontRows[i])

\* C2: the call never raises to its caller, and whenever it has returned,
\* after a failure or not, both tables are well formed: every row has
\* exactly one value per column of its table.
WellFormed(t) ==
    /\ DOMAIN t.rows = 1..Len(t.rows)
    /\ \A i \in DOMAIN t.rows : DOMAIN t.rows[i].vals = Range(t.columns)

C2_NeverRaises ==
    /\ pc # "Raised"
    /\ Returned => WellFormed(pareto_front_df) /\ WellFormed(pareto_front_unique)

C2_OptimizerRaisedAndReturned ==
    /\ pc = "Failed"
    /\ error = "search"
    /\ searches = 1
    /\ pareto_front_df.columns = <<obj1_col, obj2_col>>

\* C3: on success the returned rows are exactly the non-dominated
\* candidates of the cleaned table: every dominated candidate is absent and
\* every non-dominated candidate is present.  Stated for the tables of the
\* claim's own example, whose objectives are all finite.
AllFinite == \A c \in Candidates : c.vals[obj1_col] < Inf /\ c.vals[obj2_col] < Inf

C3_ExactFrontier ==
    pc = "Done" /\ AllFinite =>
        {r.vals : r \in Range(FrontRows)} =
            {r.vals : r \in {c \in Candidates : \A b \in Candidates : ~Dominates(b, c)}}

\* C4: when an input check fails (empty table, missing or non-numeric
\* objective column, no row with both objectives present) the search is
\* never built or run: the call never reaches the search stage and the
\* number of searches stays zero.
InvalidInput ==
    \/ Len(df.rows) = 0
    \/ Len(df.columns) = 0
    \/ obj1_col \notin Range(df.columns)
    \/ obj2_col \notin Range(df.columns)
    \/ obj1_col \notin df.numeric
    \/ obj2_col \notin df.numeric
    \/ Candidates = {}

C4_NoSearchOnInvalidInput ==
    InvalidInput =>
        /\ searches = 0
        /\ pc \in {"Validating", "Cleaning", "Failed"}
        /\ result = <<>>

C4_AllMissingRejected ==
    /\ pc = "Failed"
    /\ Len(df.rows) = MaxRows
    /\ obj1_col \in Range(df.columns)
    /\ obj2_col \in Range(df.columns)
    /\ Candidates = {}
    /\ error = "No valid data after removing NaN values"

\* C5: every row of the returned full-row table has, in every column, the
\* values of some row of the input that has both objectives present.
C5_FrontierWithinCandidates ==
    Returned =>
        \A i \in DOMAIN FrontRows :
            \E c \in Candidates : c.vals = FrontRows[i].vals

C5_FrontierBesideMissingRow ==
    /\ pc = "Done"
    /\ Len(FrontRows) >= 1
    /\ \E r \in Range(df.rows) : ~HasObjectives(r)

\* C6: no two rows of the returned full-row table are equal in all columns.
C6_NoDuplicateRows ==
    Returned =>
        \A i, j \in DOMAIN FrontRows :
            i # j => FrontRows[i].vals # FrontRows[j].vals

C6_DuplicatesOffered ==
    /\ pc = "Done"
    /\ \/ \E i, j \in DOMAIN result :
             i # j /\ result[i].variables = result[j].variables
       \/ \E i, j \in DOMAIN result :
             /\ result[i].variables # result[j].variables
             /\ df_clean.rows[result[i].variables + 1].vals =
                   df_clean.rows[result[j].variables + 1].vals
    /\ Len(result) = 2
    /\ Len(FrontRows) = 1

\* C7: both returned tables are sorted ascending by (obj1, obj2): adjacent
\* rows are ordered by obj1 and, when obj1 is equal, by obj2.
SortedByObjectives(rows) ==
    \A i \in 1..(Len(rows) - 1) :
        /\ rows[i].vals[obj1_col] <= rows[i + 1].vals[obj1_col]
        /\ rows[i].vals[obj1_col] = rows[i + 1].vals[obj1_col]
              => rows[i].vals[obj2_col] <= rows[i + 1].vals[obj2_col]

C7_BothSorted ==
    Returned => SortedByObjectives(FrontRows) /\ SortedByObjectives(ObjRows)

C7_TieOnFirstObjective ==
    /\ pc = "Done"
    /\ Len(FrontRows) = 2
    /\ FrontRows[1].vals[obj1_col] = FrontRows[2].vals[obj1_col]
    /\ FrontRows[1].vals[obj2_col] < FrontRows[2].vals[obj2_col]
    /\ FrontRows[1].label > FrontRows[2].label

\* C8: on every failure path the objective-only table is empty with exactly
\* the two requested column names, and the full-row table is empty with the
\* input's columns, or with no columns when the input table was empty.
C8_FailureShape ==
    pc = "Failed" =>
        /\ pareto_front_df = [columns |-> <<obj1_col, obj2_col>>, rows |-> <<>>]
        /\ pareto_front_unique =
              [columns |-> IF Len(df.rows) = 0 \/ Len(df.columns) = 0
                           THEN <<>> ELSE df.columns,
               rows    |-> <<>>]

C8_FailedOnRowlessInput ==
    /\ pc = "Failed"
    /\ Len(df.rows) = 0
    /\ Len(df.columns) > 0
    /\ pareto_front_unique.columns = <<>>

\* C9: min_unique_points never changes the returned rows nor makes the call
\* fail: at Done the full-row table holds the sorted, deduplicated rows of
\* the result set, no error was reported, and the warning was printed
\* exactly when there are fewer rows than min_unique_points.
C9_TargetOnlyWarns ==
    pc = "Done" =>
        /\ FrontRows = UniqueFront(df_clean, result, obj1_col, obj2_col)
        /\ Len(ObjRows) = Len(FrontRows)
        /\ error = "none"
        /\ warned <=> Len(FrontRows) < min_unique_points

C9_UnderTargetReturned ==
    /\ pc = "Done"
    /\ warned
    /\ Len(FrontRows) >= 1
    /\ Len(FrontRows) < min_unique_points

\* C10 as stated: in every returned pair the objective-only table has
\* exactly the columns obj1_col, obj2_col and the full-row table has exactly
\* the columns of the input table.
C10_InputColumnsAlways ==
    Returned =>
        /\ pareto_front_df.columns = <<obj1_col, obj2_col>>
        /\ pareto_front_unique.columns = df.columns

\* C10 amended: in every returned pair the objective-only table has exactly
\* the columns obj1_col, obj2_col, and the full-row table has exactly the
\* columns of the input table unless the input table is empty (no rows or
\* no columns), in which case it has no columns.
C10_ShapeUnlessEmptyInput ==
    Returned =>
        /\ pareto_front_df.columns = <<obj1_col, obj2_col>>
        /\ \A i \in DOMAIN ObjRows : DOMAIN ObjRows[i].vals = {obj1_col, obj2_col}
        /\ pareto_front_unique.columns =
              IF Len(df.rows) = 0 \/ Len(df.columns) = 0 THEN <<>> ELSE df.columns

C10_SuccessfulPair ==
    /\ pc = "Done"
    /\ Len(ObjRows) >= 1
    /\ pareto_front_unique.columns = df.columns

\* C11: on success the two tables are projections of the same rows in the
\* same order: equally many rows, the i-th objective-only row holds the two
\* objective values of the i-th full row, the objective-only table is
\* labelled 0..k-1, and every full row carries the label it has in the input.
C11_SameRowsTwoViews ==
    pc = "Done" =>
        /\ Len(ObjRows) = Len(FrontRows)
        /\ \A i \in DOMAIN FrontRows :
              /\ ObjRows[i].vals[obj1_col] = FrontRows[i].vals[obj1_col]
              /\ ObjRows[i].vals[obj2_col] = FrontRows[i].vals[obj2_col]
              /\ ObjRows[i].label = i - 1
              /\ \E j \in DOMAIN df.rows :
                    /\ df.rows[j].label = FrontRows[i].label
                    /\ df.rows[j].vals = FrontRows[i].vals

C11_LabelsDifferFromPositions ==
    /\ pc = "Done"
    /\ Len(FrontRows) >= 1
    /\ Len(df_clean.rows) < Len(df.rows)
    /\ \E i \in DOMAIN FrontRows : FrontRows[i].label # ObjRows[i].label

\* C12 as stated: when all candidates have the same pair of objective
\* values, a successful call returns exactly one row, whatever the values
\* of the non-objective columns.
SameObjectives ==
    /\ Candidates # {}
    /\ \A a, b \in Candidates :
          /\ a.vals[obj1_col] = b.vals[obj1_col]
          /\ a.vals[obj2_col] = b.vals[obj2_col]

C12_OneRowForEqualObjectives ==
    pc = "Done" /\ SameObjectives /\ AllFinite => Len(FrontRows) = 1

\* C12 amended: when all candidates have the same pair of finite objective
\* values, a successful call returns one row for each distinct combination
\* of column values among the candidates the result set selects: exactly
\* one row when the candidates agree in every column, and one row per
\* differing non-objective value otherwise.
C12_OneRowPerDistinctCandidate ==
    pc = "Done" /\ SameObjectives /\ AllFinite =>
        /\ Len(FrontRows) =
              Cardinality({c.vals : c \in {d \in Candidates :
                              \E i \in DOMAIN result :
                                  df_clean.rows[result[i].variables + 1] = d}})
        /\ (\A a, b \in Candidates : a.vals = b.vals) => Len(FrontRows) = 1

C12_IdenticalCandidatesOneRow ==
    /\ pc = "Done"
    /\ Cardinality(Candidates) = MaxRows
    /\ \A a, b \in Candidates : a.vals = b.vals
    /\ Cardinality({result[i].variables : i \in DOMAIN result}) = 2
    /\ Len(FrontRows) = 1

\* C14: a call leaves the caller's table as it was on every path, and the
\* two returned tables are objects created during the call, neither of
\* them the caller's table.
C14_InputUntouched ==
    [][/\ df' = df
       /\ objects'.df = objects.df
       /\ Returned' =>
             /\ objects'.pareto_front_df \notin {objects.df, "unbound"}
             /\ objects'.pareto_front_unique \notin {objects.df, "unbound"}
             /\ objects'.pareto_front_df # objects'.pareto_front_unique]_vars

C14_RowsDroppedFromCopyOnly ==
    /\ Returned
    /\ objects.df_clean = "df.dropna(...).copy()"
    /\ Len(df_clean.rows) < Len(df.rows)
    /\ Len(df.rows) = MaxRows

\* C15 as stated: a call moves Validating, Cleaning, Searching,
\* Reconstructing, Done in that order without skipping or repeating a
\* stage; Failed is absorbing and entered only from Validating or Searching;
\* a non-empty frontier is returned only from Done.
StageOrder ==
    {<<"Validating", "Cleaning">>, <<"Cleaning", "Searching">>,
     <<"Searching", "Reconstructing">>, <<"Reconstructing", "Done">>}

C15_FailedFromValidatingOrSearching ==
    [][/\ <<pc, pc'>> \in StageOrder \cup
              {<<"Validating", "Failed">>, <<"Searching", "Failed">>}
       /\ Len(pareto_front_unique'.rows) > 0 => pc' = "Done"]_vars

\* C15 amended: the stages follow in that order without skipping or
\* repeating; Failed is absorbing and can be entered from each of the four
\* working stages: from Validating (bad input), from Cleaning (no row left
\* after dropping missing objectives), from Searching (optimizer exception)
\* and from Reconstructing (exception while the frontier is rebuilt); a
\* non-empty frontier is returned only from Done.
C15_FailedFromAnyWorkingStage ==
    [][/\ <<pc, pc'>> \in StageOrder \cup
              {<<st, "Failed">> :
                  st \in {"Validating", "Cleaning", "Searching", "Reconstructing"}}
       /\ Len(pareto_front_unique'.rows) > 0 => pc' = "Done"]_vars

C15_FailedWhileCleaning ==
    /\ pc = "Failed"
    /\ objects.df_clean # "unbound"
    /\ df_clean.rows = <<>>
    /\ Len(df.rows) >= 1
    /\ searches = 0

\* C16: rows with a missing objective are removed before the search is set
\* up: whenever the search has been reached, the cleaned table holds exactly
\* the input rows with both objectives present, at least one of them, the
\* decision variable ranges over exactly 0..rowCount-1, and every solution
\* of the result set has an index in that range and no missing objective;
\* when cleaning leaves no row the call fails with the "no valid data"
\* error without any search.
SearchReached == pc \in {"Searching", "Reconstructing", "Done"} \/ searches > 0

C16_SearchOverCleanRows ==
    /\ SearchReached =>
          /\ df_clean.rows = SelectSeq(df.rows, HasObjectives)
          /\ Len(df_clean.rows) >= 1
          /\ {s.variables : s \in Solutions(df_clean, obj1_col, obj2_col)} =
                0..(Len(df_clean.rows) - 1)
          /\ \A i \in DOMAIN result :
                /\ result[i].variables \in 0..(Len(df_clean.rows) - 1)
                /\ ~IsNaN(result[i].objectives[1])
                /\ ~IsNaN(result[i].objectives[2])
    /\ (/\ Returned
        /\ Len(df.rows) >= 1
        /\ obj1_col \in Range(df.columns) \cap df.numeric
        /\ obj2_col \in Range(df.columns) \cap df.numeric
        /\ Candidates = {}) =>
          /\ pc = "Failed"
          /\ error = "No valid data after removing NaN values"
          /\ searches = 0

C16_SearchAfterRowsDropped ==
    /\ pc = "Reconstructing"
    /\ Len(df_clean.rows) = MaxRows - 1
    /\ Len(df.rows) = MaxRows
    /\ IsNaN(df.rows[1].vals[obj2_col])
    /\ result[1].variables = Len(df_clean.rows) - 1

\* C19: evaluation and reconstruction resolve a decision index to the same
\* row: the objectives of every solution are the two objective values of
\* the row at its position in the cleaned table, that row (or an equal one)
\* is in the frontier when the objectives are finite, and every frontier row
\* is the row at the position of some solution, whatever the row labels.
RowAt(solution) == df_clean.rows[solution.variables + 1]

C19_SameRowEvaluatedAndReturned ==
    pc = "Done" =>
        /\ \A i \in DOMAIN result :
              /\ result[i].objectives =
                    <<RowAt(result[i]).vals[obj1_col], RowAt(result[i]).vals[obj2_col]>>
              /\ (result[i].objectives[1] < Inf /\ result[i].objectives[2] < Inf)
                    => \E k \in DOMAIN FrontRows :
                          FrontRows[k].vals = RowAt(result[i]).vals
        /\ \A k \in DOMAIN FrontRows :
              \E i \in DOMAIN result : FrontRows[k] = RowAt(result[i])

C19_PositionIsNotLabel ==
    /\ pc = "Done"
    /\ Len(result) = 1
    /\ result[1].variables = 0
    /\ Len(FrontRows) = 1
    /\ FrontRows[1].label = 1
    /\ df_clean.rows[1].label = 1

\* the rows at the positions of the solutions kept by Keep, without
\* duplicates, sorted
RowsOfKept(res, Keep(_)) ==
    [i \in 1..Len(SelectSeq(res, Keep)) |-> RowAt(SelectSeq(res, Keep)[i])]

FrontierOfKept(Keep(_)) ==
    sort_values(drop_duplicates(RowsOfKept(result, Keep)), obj1_col, obj2_col)

InRange(solution) ==
    0 <= solution.variables /\ solution.variables < Len(df_clean.rows)

\* C17 as stated: a solution with a non-finite objective value or with a
\* decision index outside 0..rowCount-1 is left out of the frontier, and
\* the rows of the remaining solutions are still returned.
FiniteObjectives(solution) ==
    \A k \in {1, 2} : solution.objectives[k] \notin {Inf, NegInf, NaN}

ResolvedAsClaimed(solution) == InRange(solution) /\ FiniteObjectives(solution)

BelowInf(solution) ==
    \A k \in {1, 2} : solution.objectives[k] \notin {Inf, NaN}

ResolvedByCode(solution) == InRange(solution) /\ BelowInf(solution)

====
